---- MODULE Spec2Model ----
(***************************************************************************)
(* A model of the ratata application runtime: the Builder, the command     *)
(* interpreter (Application::handle_command), the run loop                 *)
(* (Application::run) and the event listener worker (events::listen).      *)
(***************************************************************************)
EXTENDS Integers, Sequences, FiniteSets, TLC

\* ---------------------------------------------------------------- bounds
\* Running iterations a run may start.
MaxIter == 2
\* Input occurrences the terminal produces during a run.
MaxEvents == 2
\* Control sequences the output sink holds.
MaxSink == 2

\* ---------------------------------------------------------------- values
\* Option<T>: None, or Some(x).
None == <<>>
Some(x) == <<x>>

\* TypeIds of the screen kinds an application may register.
ScreenKeys == {1, 2, 3}

\* A screen as the application writes it: it remembers its own kind, how many
\* messages of each sort its update has received, and the last of them.
NewScreen(k) == [ty |-> k, upd |-> 0, shut |-> 0, last |-> None]

\* Command (command.rs): every variant in one record shape.
Batch(commands) == [t |-> "Batch", k |-> 0, cs |-> commands]
Screen(ident) == [t |-> "Screen", k |-> ident, cs |-> <<>>]
EnableRawMode == [t |-> "EnableRawMode", k |-> 0, cs |-> <<>>]
DisableRawMode == [t |-> "DisableRawMode", k |-> 0, cs |-> <<>>]
Crossterm == [t |-> "Crossterm", k |-> 0, cs |-> <<>>]
Quit == [t |-> "Quit", k |-> 0, cs |-> <<>>]

\* Result<(), RuntimeError> (plus the panic of a failed assert!).
Ok == [err |-> "Ok", key |-> 0]
MissingScreenError(key) == [err |-> "MissingScreen", key |-> key]
EventSourceDisconnectedError == [err |-> "EventSourceDisconnected", key |-> 0]
CrosstermCommandExecution == [err |-> "CrosstermCommandExecution", key |-> 0]
RawMode == [err |-> "RawMode", key |-> 0]
AssertPanic == [err |-> "Panic", key |-> 0]

\* Message (message.rs) and crossterm's Event, each in one record shape.
Tick == [ty |-> "Tick", code |-> ""]
Shutdown == [ty |-> "Shutdown", code |-> ""]
KeyCodes == {"a", "b"}
KeyEvent(kind, code) == [ty |-> "Key", kind |-> kind, code |-> code]
OtherEvent(ty) == [ty |-> ty, kind |-> "", code |-> ""]
Events ==
    {KeyEvent(kind, code) : kind \in {"Press", "Release", "Repeat"}, code \in KeyCodes}
        \cup {OtherEvent(ty) : ty \in {"Mouse", "Resize", "FocusGained", "FocusLost", "Paste"}}

\* impl From<Event> for Message: a key event loses its kind, the other
\* events keep their payload.
MessageFrom(value) == [ty |-> value.ty, code |-> value.code]

VARIABLES
    pc,                     \* where the main thread is in Builder / run
    startup_callback,       \* Builder / Application field (configured or not)
    shutdown_callback,
    screens,                \* the registry: TypeId -> screen
    active_screen_entry,    \* Option<(TypeId, screen)>
    previous_screen_entry,
    exiting,
    sink,                   \* control sequences written to the sink
    last_tick,              \* Option<Instant>, the instant abstracted
    result,                 \* what run returned, once it has
    chan,                   \* the mpsc channel's queue
    rx_alive,               \* the Receiver has not been dropped
    should_quit,            \* the shared AtomicBool
    lpc,                    \* where the listener worker is
    event,                  \* the occurrence the worker holds
    nread,                  \* occurrences the terminal has produced
    \* history variables: they record what happened, the program never reads them
    iter,                   \* Running iterations started
    message,                \* Option<Message> selected by this iteration's poll
    updates,                \* update calls on the active screen in this iteration
    renders,                \* render calls in this iteration
    rendered,               \* Option<TypeId> of the screen rendered last
    command,                \* Option<Command> handed to handle_command last
    origin,                 \* which call site handed it over
    executed,               \* the non-Batch commands that call reached, in order
    outcome,                \* what that call returned
    pending,                \* registry keys shutdown_screens has yet to visit
    shutdown_runs,          \* executions of the shutdown command
    registered,             \* the TypeIds handed to Builder::screen
    forwarded,              \* the occurrences the worker has sent, in order
    delivered               \* the messages made of occurrences that update received, in order

appvars == <<screens, active_screen_entry, previous_screen_entry, exiting, sink>>
cfgvars == <<startup_callback, shutdown_callback>>
listenervars == <<lpc, event, nread>>
histvars == <<iter, message, updates, renders, rendered, command, origin, executed,
              outcome, pending, shutdown_runs, registered, forwarded, delivered>>
vars == <<pc, startup_callback, shutdown_callback, screens, active_screen_entry,
          previous_screen_entry, exiting, sink, last_tick, result,
          chan, rx_alive, should_quit, lpc, event, nread,
          iter, message, updates, renders, rendered, command, origin, executed,
          outcome, pending, shutdown_runs, registered, forwarded, delivered>>

\* ------------------------------------------------------ the interpreter
\* The part of Application the interpreter reads and writes, as one record.
\* io is the environment's answer to the call's I/O: 0 when every terminal
\* operation of the call succeeds, n > 0 when the n-th one fails. log collects
\* the non-Batch commands reached (history only).
App(io) ==
    [screens |-> screens, active |-> active_screen_entry,
     previous |-> previous_screen_entry, exiting |-> exiting,
     sink |-> sink, io |-> io, log |-> <<>>]

Entry(ident, screen) == [key |-> ident, screen |-> screen]

\* remove_entry with a slip: the entry stays in the map (`get` and a copy).
RemoveKeyKeeps(map, key) == map

\* HashMap::remove_entry and HashMap::insert.
RemoveKey(map, key) == [k \in DOMAIN map \ {key} |-> map[k]]
Insert(map, key, value) == [k \in DOMAIN map \cup {key} |-> IF k = key THEN value ELSE map[k]]

\* get_screen with a slip: the entry is looked up (HashMap::get) and copied,
\* the registry keeps it.
get_screen_keeps(a, screen) ==
    IF screen \in DOMAIN a.screens
    THEN [res |-> Ok, entry |-> Some(Entry(screen, a.screens[screen])), app |-> a]
    ELSE [res |-> MissingScreenError(screen), entry |-> None, app |-> a]

\* Application::get_screen: take the entry out of the registry, or fail.
get_screen(a, screen) ==
    IF screen \in DOMAIN a.screens
    THEN [res |-> Ok, entry |-> Some(Entry(screen, a.screens[screen])),
          app |-> [a EXCEPT !.screens = RemoveKey(a.screens, screen)]]
    ELSE [res |-> MissingScreenError(screen), entry |-> None, app |-> a]

\* activate_screen with a slip: the active screen is moved to the previous
\* slot before the lookup, so a failed lookup leaves the slots shifted.
activate_screen_eager(a, screen) ==
    LET replaced == a.previous
        shifted == [a EXCEPT !.active = None, !.previous = a.active]
        got == get_screen(shifted, screen)
    IN
    IF got.res # Ok THEN [app |-> got.app, res |-> got.res]
    ELSE
        LET swapped == [got.app EXCEPT !.active = got.entry]
        IN
        IF replaced = None THEN [app |-> swapped, res |-> Ok]
        ELSE [app |-> [swapped EXCEPT
                          !.screens = Insert(swapped.screens, replaced[1].key,
                                             replaced[1].screen)],
              res |-> IF replaced[1].key \in DOMAIN swapped.screens THEN AssertPanic ELSE Ok]

\* Application::activate_screen.
activate_screen(a, screen) ==
    LET got == get_screen(a, screen) IN
    IF got.res # Ok THEN [app |-> got.app, res |-> got.res]
    ELSE
        LET new == got.entry[1]
            previous == got.app.active
            replaced == got.app.previous
            swapped == [got.app EXCEPT !.active = Some(new), !.previous = previous]
        IN
        IF replaced = None THEN [app |-> swapped, res |-> Ok]
        ELSE
            LET ident == replaced[1].key
                inserted == [swapped EXCEPT
                                !.screens = Insert(swapped.screens, ident, replaced[1].screen)]
            IN [app |-> inserted,
                res |-> IF ident \in DOMAIN swapped.screens THEN AssertPanic ELSE Ok]

\* One terminal operation of the call: whether it fails, and the oracle after it.
IoFails(a) == a.io = 1
IoDone(a) == [a EXCEPT !.io = IF @ = 0 THEN 0 ELSE @ - 1]

\* The Batch loop with a slip: the element's result is dropped (`let _ =`),
\* so the loop goes on after a fault.
batch_continues_always(res) == TRUE

\* The `?` of the Batch loop: go on to the next element only after an Ok.
batch_continues(res) == res = Ok

\* The order in which the Batch loop visits its elements.
batch_order(commands) == commands

RECURSIVE handle_command(_, _)
RECURSIVE handle_batch(_, _)

\* The Batch arm with a slip: once the loop is through, the arm sets exiting
\* as the Quit arm does.
handle_batch_then_quit(a, commands) ==
    IF commands = <<>> THEN [app |-> [a EXCEPT !.exiting = TRUE], res |-> Ok]
    ELSE
        LET r == handle_command(a, Head(commands)) IN
        IF batch_continues(r.res) THEN handle_batch(r.app, Tail(commands)) ELSE r

\* `for command in commands { self.handle_command(command)?; } Ok(())`
handle_batch(a, commands) ==
    IF commands = <<>> THEN [app |-> a, res |-> Ok]
    ELSE
        LET r == handle_command(a, Head(commands)) IN
        IF batch_continues(r.res) THEN handle_batch(r.app, Tail(commands)) ELSE r

\* Application::handle_command.
handle_command(a, cmd) ==
    LET logged == [a EXCEPT !.log = Append(@, cmd)] IN
    CASE cmd.t = "Batch" -> handle_batch(a, batch_order(cmd.cs))
      [] cmd.t = "EnableRawMode" ->
            [app |-> IoDone(logged), res |-> IF IoFails(a) THEN RawMode ELSE Ok]
      [] cmd.t = "DisableRawMode" ->
            [app |-> IoDone(logged), res |-> IF IoFails(a) THEN RawMode ELSE Ok]
      [] cmd.t = "Screen" ->
            LET r == activate_screen(logged, cmd.k) IN [app |-> r.app, res |-> r.res]
      [] cmd.t = "Crossterm" ->
            IF IoFails(a) THEN [app |-> IoDone(logged), res |-> CrosstermCommandExecution]
            ELSE [app |-> [IoDone(logged) EXCEPT !.sink = Append(@, "op")], res |-> Ok]
      [] cmd.t = "Quit" -> [app |-> [logged EXCEPT !.exiting = TRUE], res |-> Ok]

\* ------------------------------------------------- what applications do
\* A screen's update: application code. The screen counts what it receives;
\* the command it returns is chosen by the action that calls it.
ScreenUpdate(screen, msg) ==
    IF msg.ty = "Shutdown" THEN [screen EXCEPT !.shut = @ + 1, !.last = Some(msg)]
    ELSE [screen EXCEPT !.upd = @ + 1, !.last = Some(msg)]

\* The commands application code hands to the runtime (from update, and from
\* the startup and shutdown callbacks). Three menus, from the smallest.
Leaves == {Screen(k) : k \in ScreenKeys} \cup {EnableRawMode, DisableRawMode, Crossterm, Quit}
NestLeaves == {Screen(3), Crossterm, Quit}
FewCommands == {Quit, Screen(2), Screen(3)}
SomeCommands ==
    {Screen(k) : k \in ScreenKeys}
        \cup {Quit, Crossterm, Batch(<<Quit, Screen(2)>>), Batch(<<Screen(3), Quit>>)}
ManyCommands ==
    Leaves \cup {Batch(<<>>)}
        \cup {Batch(<<x, y>>) : x \in Leaves, y \in Leaves}
        \cup {Batch(<<Batch(<<x, y>>), z>>) : x \in NestLeaves, y \in NestLeaves, z \in NestLeaves}
        \cup {Batch(<<x, Batch(<<>>), Batch(<<y, z>>)>>) :
                 x \in NestLeaves, y \in NestLeaves, z \in NestLeaves}

\* What update may return, and what a callback returns if one is configured.
UpdateChoices(menu) == {None} \cup {Some(c) : c \in menu}
CallbackChoices(configured, menu) == IF configured THEN {Some(c) : c \in menu} ELSE {None}

\* The environment's answers to a call's terminal operations.
IoChoices == {0, 1, 2, 3}

\* --------------------------------------------------------------- Builder
Init ==
    /\ pc = "build"
    /\ startup_callback = FALSE
    /\ shutdown_callback = FALSE
    /\ screens = <<>>
    /\ active_screen_entry = None
    /\ previous_screen_entry = None
    /\ exiting = FALSE
    /\ sink = <<>>
    /\ last_tick = None
    /\ result = None
    /\ chan = <<>>
    /\ rx_alive = FALSE
    /\ should_quit = FALSE
    /\ lpc = "unspawned"
    /\ event = None
    /\ nread = 0
    /\ iter = 0
    /\ message = None
    /\ updates = 0
    /\ renders = 0
    /\ rendered = None
    /\ command = None
    /\ origin = ""
    /\ executed = <<>>
    /\ outcome = None
    /\ pending = {}
    /\ shutdown_runs = 0
    /\ registered = {}
    /\ forwarded = <<>>
    /\ delivered = <<>>

\* Builder::screen: insert under the screen's TypeId, replacing what was there.
BuilderScreen(k) ==
    /\ pc = "build"
    /\ screens' = Insert(screens, k, NewScreen(k))
    /\ registered' = registered \cup {k}
    /\ UNCHANGED <<pc, cfgvars, active_screen_entry, previous_screen_entry, exiting, sink,
                   last_tick, result, chan, rx_alive, should_quit, listenervars, iter,
                   message, updates, renders, rendered, command, origin, executed, outcome,
                   pending, shutdown_runs, forwarded, delivered>>

\* Builder::on_startup.
BuilderOnStartup ==
    /\ pc = "build"
    /\ startup_callback' = TRUE
    /\ UNCHANGED <<pc, shutdown_callback, appvars, last_tick, result, chan, rx_alive,
                   should_quit, listenervars, histvars>>

\* Builder::on_shutdown.
BuilderOnShutdown ==
    /\ pc = "build"
    /\ shutdown_callback' = TRUE
    /\ UNCHANGED <<pc, startup_callback, appvars, last_tick, result, chan, rx_alive,
                   should_quit, listenervars, histvars>>

\* ------------------------------------------------------ Application::run
\* The application's fields after a call on the record a.
SetApp(a) ==
    /\ screens' = a.screens
    /\ active_screen_entry' = a.active
    /\ previous_screen_entry' = a.previous
    /\ exiting' = a.exiting
    /\ sink' = a.sink

\* `if let Some(command) = .. { self.handle_command(command)?; }`: cb is the
\* command, None when there is none to execute.
run_callback(a, cb) ==
    IF cb = None THEN [app |-> a, res |-> Ok] ELSE handle_command(a, cb[1])

\* The history of a handle_command call, and its reset by the next step.
Record(cb, site, r) ==
    /\ command' = cb
    /\ origin' = site
    /\ executed' = r.app.log
    /\ outcome' = IF cb = None THEN None ELSE Some(r.res)

Forget ==
    /\ command' = None
    /\ origin' = ""
    /\ executed' = <<>>
    /\ outcome' = None

\* run's entry with a slip: the initial screen is activated before the
\* startup command is executed.
RunStartActivatesFirst(S, cb, io) ==
    /\ pc = "build"
    /\ LET activated == activate_screen(App(io), S)
           started == IF activated.res = Ok THEN run_callback(activated.app, cb) ELSE activated
       IN /\ Len(started.app.sink) <= MaxSink
          /\ SetApp(started.app)
          /\ IF activated.res = Ok THEN Record(cb, "startup", started) ELSE Forget
          /\ IF started.res = Ok
             THEN /\ pc' = "top"
                  /\ lpc' = "top"
                  /\ rx_alive' = TRUE
                  /\ result' = None
             ELSE /\ pc' = "done"
                  /\ result' = Some(started.res)
                  /\ UNCHANGED <<lpc, rx_alive>>
    /\ UNCHANGED <<cfgvars, last_tick, chan, should_quit, event, nread, iter, message,
                   updates, renders, rendered, pending, shutdown_runs, registered, forwarded, delivered>>

\* run, from its entry to the spawn of the listener: the startup command,
\* then the activation of the initial screen S, then events::listen.
RunStart(S, cb, io) ==
    /\ pc = "build"
    /\ LET started == run_callback(App(io), cb)
           activated == IF started.res = Ok THEN activate_screen(started.app, S) ELSE started
       IN /\ Len(activated.app.sink) <= MaxSink
          /\ SetApp(activated.app)
          /\ Record(cb, "startup", started)
          /\ IF activated.res = Ok
             THEN /\ pc' = "top"
                  /\ lpc' = "top"
                  /\ rx_alive' = TRUE
                  /\ result' = None
             ELSE /\ pc' = "done"
                  /\ result' = Some(activated.res)
                  /\ UNCHANGED <<lpc, rx_alive>>
    /\ UNCHANGED <<cfgvars, last_tick, chan, should_quit, event, nread, iter, message,
                   updates, renders, rendered, pending, shutdown_runs, registered, forwarded, delivered>>

\* The exit with a slip: the loop breaks without calling shutdown_screens.
LoopExitSkipsScreens ==
    /\ pc = "top"
    /\ exiting
    /\ pc' = "shutdown_screens"
    /\ pending' = {}
    /\ Forget
    /\ UNCHANGED <<cfgvars, appvars, last_tick, result, chan, rx_alive, should_quit,
                   listenervars, iter, message, updates, renders, rendered, shutdown_runs,
                   registered, forwarded, delivered>>

\* Top of the loop with exiting set: `break self.shutdown_screens()` begins.
LoopExit ==
    /\ pc = "top"
    /\ exiting
    /\ pc' = "shutdown_screens"
    /\ pending' = DOMAIN screens
    /\ Forget
    /\ UNCHANGED <<cfgvars, appvars, last_tick, result, chan, rx_alive, should_quit,
                   listenervars, iter, message, updates, renders, rendered, shutdown_runs,
                   registered, forwarded, delivered>>

\* Top of the loop with exiting clear: sleep out the tick, take a new instant.
LoopPace ==
    /\ pc = "top"
    /\ ~exiting
    /\ iter < MaxIter
    /\ last_tick' = Some("instant")
    /\ pc' = "poll"
    /\ iter' = iter + 1
    /\ message' = None
    /\ updates' = 0
    /\ renders' = 0
    /\ Forget
    /\ UNCHANGED <<cfgvars, appvars, result, chan, rx_alive, should_quit, listenervars,
                   rendered, pending, shutdown_runs, registered, forwarded, delivered>>

\* The worker has finished, which drops the Sender it owned.
SenderDropped == lpc \in {"ok", "read_error", "send_error"}

\* try_read_event with a slip: both TryRecvError variants map to Ok(None).
try_read_event_ignores_disconnect(queue, disconnected) ==
    IF queue # <<>> THEN [res |-> Ok, event |-> Some(Head(queue)), queue |-> Tail(queue)]
    ELSE [res |-> Ok, event |-> None, queue |-> queue]

\* try_read_event with a slip: the head of the channel is read and left there.
try_read_event_peeks(queue, disconnected) ==
    IF queue # <<>> THEN [res |-> Ok, event |-> Some(Head(queue)), queue |-> queue]
    ELSE IF disconnected
         THEN [res |-> EventSourceDisconnectedError, event |-> None, queue |-> queue]
         ELSE [res |-> Ok, event |-> None, queue |-> queue]

\* Application::try_read_event on a channel holding queue.
try_read_event(queue, disconnected) ==
    IF queue # <<>> THEN [res |-> Ok, event |-> Some(Head(queue)), queue |-> Tail(queue)]
    ELSE IF disconnected
         THEN [res |-> EventSourceDisconnectedError, event |-> None, queue |-> queue]
         ELSE [res |-> Ok, event |-> None, queue |-> queue]

\* The selection with a slip: the drained event is dropped for a Tick.
select_message_tick(polled) == Tick

\* `match .. { Some(event) => Message::from(event), None => Message::Tick }`
select_message(polled) == IF polled = None THEN Tick ELSE MessageFrom(polled[1])

\* The poll step with a slip: `recv()` for `try_recv()`, which waits on an
\* empty channel while its sender lives.
PollBlocks ==
    /\ pc = "poll"
    /\ (chan # <<>> \/ SenderDropped)
    /\ LET r == try_read_event(chan, SenderDropped) IN
       /\ chan' = r.queue
       /\ IF r.res = Ok
          THEN /\ message' = Some(select_message(r.event))
               /\ pc' = "update"
               /\ UNCHANGED <<result, rx_alive>>
          ELSE /\ result' = Some(r.res)
               /\ pc' = "done"
               /\ rx_alive' = FALSE
               /\ UNCHANGED message
    /\ UNCHANGED <<cfgvars, appvars, last_tick, should_quit, listenervars, iter, updates,
                   renders, rendered, command, origin, executed, outcome, pending,
                   shutdown_runs, registered, forwarded, delivered>>

\* The poll step: try_read_event, then the message selection.
Poll ==
    /\ pc = "poll"
    /\ LET r == try_read_event(chan, SenderDropped) IN
       /\ chan' = r.queue
       /\ IF r.res = Ok
          THEN /\ message' = Some(select_message(r.event))
               /\ pc' = "update"
               /\ UNCHANGED <<result, rx_alive>>
          ELSE /\ result' = Some(r.res)
               /\ pc' = "done"
               /\ rx_alive' = FALSE
               /\ UNCHANGED message
    /\ UNCHANGED <<cfgvars, appvars, last_tick, should_quit, listenervars, iter, updates,
                   renders, rendered, command, origin, executed, outcome, pending,
                   shutdown_runs, registered, forwarded, delivered>>

\* The active screen's update on the selected message, then handle_command on
\* what it returned (ret: None, or Some(command)).
Update(ret, io) ==
    /\ pc = "update"
    /\ LET entry == active_screen_entry[1]
           updated == [App(io) EXCEPT
                          !.active = Some(Entry(entry.key, ScreenUpdate(entry.screen, message[1])))]
           r == run_callback(updated, ret)
       IN /\ Len(r.app.sink) <= MaxSink
          /\ SetApp(r.app)
          /\ Record(ret, "update", r)
          /\ updates' = updates + 1
          /\ delivered' = IF message[1] = Tick THEN delivered ELSE Append(delivered, message[1])
          /\ IF r.res = Ok
             THEN /\ pc' = "render"
                  /\ UNCHANGED <<result, rx_alive>>
             ELSE /\ pc' = "done"
                  /\ result' = Some(r.res)
                  /\ rx_alive' = FALSE
    /\ UNCHANGED <<cfgvars, last_tick, chan, should_quit, listenervars, iter, message,
                   renders, rendered, pending, shutdown_runs, registered, forwarded>>

\* The render step with a slip: the screen to draw is the one update was
\* called on, also when the command has switched screens since.
RenderReceiver ==
    /\ pc = "render"
    /\ renders' = renders + 1
    /\ rendered' = IF previous_screen_entry # None
                      /\ \E i \in DOMAIN executed : executed[i].t = "Screen"
                   THEN Some(previous_screen_entry[1].key)
                   ELSE Some(active_screen_entry[1].key)
    /\ pc' = "top"
    /\ UNCHANGED <<cfgvars, appvars, last_tick, result, chan, rx_alive, should_quit,
                   listenervars, iter, message, updates, command, origin, executed,
                   outcome, pending, shutdown_runs, registered, forwarded, delivered>>

\* The render step with a slip: nothing is drawn once exiting is set.
RenderUnlessExiting ==
    /\ pc = "render"
    /\ renders' = IF exiting THEN renders ELSE renders + 1
    /\ rendered' = IF exiting THEN rendered ELSE Some(active_screen_entry[1].key)
    /\ pc' = "top"
    /\ UNCHANGED <<cfgvars, appvars, last_tick, result, chan, rx_alive, should_quit,
                   listenervars, iter, message, updates, command, origin, executed,
                   outcome, pending, shutdown_runs, registered, forwarded, delivered>>

\* `self.terminal.draw(|f| screen.render(f))` on the active screen.
Render ==
    /\ pc = "render"
    /\ renders' = renders + 1
    /\ rendered' = Some(active_screen_entry[1].key)
    /\ pc' = "top"
    /\ UNCHANGED <<cfgvars, appvars, last_tick, result, chan, rx_alive, should_quit,
                   listenervars, iter, message, updates, command, origin, executed,
                   outcome, pending, shutdown_runs, registered, forwarded, delivered>>

\* shutdown_screens with a slip: the command update returned, here a write
\* to the sink, is executed.
ShutdownScreenExecutes(k) ==
    /\ pc = "shutdown_screens"
    /\ k \in pending
    /\ screens' = [screens EXCEPT ![k] = ScreenUpdate(@, Shutdown)]
    /\ sink' = Append(sink, "op")
    /\ pending' = pending \ {k}
    /\ UNCHANGED <<pc, cfgvars, active_screen_entry, previous_screen_entry, exiting,
                   last_tick, result, chan, rx_alive, should_quit, listenervars, iter,
                   message, updates, renders, rendered, command, origin, executed, outcome,
                   shutdown_runs, registered, forwarded, delivered>>

\* Application::shutdown_screens, one registry value per step, in the order
\* the HashMap yields them; the command update returns is dropped.
ShutdownScreen(k) ==
    /\ pc = "shutdown_screens"
    /\ k \in pending
    /\ screens' = [screens EXCEPT ![k] = ScreenUpdate(@, Shutdown)]
    /\ pending' = pending \ {k}
    /\ UNCHANGED <<pc, cfgvars, active_screen_entry, previous_screen_entry, exiting, sink,
                   last_tick, result, chan, rx_alive, should_quit, listenervars, iter,
                   message, updates, renders, rendered, command, origin, executed, outcome,
                   shutdown_runs, registered, forwarded, delivered>>

\* After the loop: the shutdown command, if one is configured.
ShutdownCallback(cb, io) ==
    /\ pc = "shutdown_screens"
    /\ pending = {}
    /\ LET r == run_callback(App(io), cb) IN
       /\ Len(r.app.sink) <= MaxSink
       /\ SetApp(r.app)
       /\ Record(cb, "shutdown", r)
       /\ shutdown_runs' = IF cb = None THEN shutdown_runs ELSE shutdown_runs + 1
       /\ IF r.res = Ok
          THEN /\ pc' = "cancel"
               /\ UNCHANGED <<result, rx_alive>>
          ELSE /\ pc' = "done"
               /\ result' = Some(r.res)
               /\ rx_alive' = FALSE
    /\ UNCHANGED <<cfgvars, last_tick, chan, should_quit, listenervars, iter, message,
                   updates, renders, rendered, pending, registered, forwarded, delivered>>

\* `event_quit_handle.store(true, Ordering::Relaxed)`.
Cancel ==
    /\ pc = "cancel"
    /\ should_quit' = TRUE
    /\ pc' = "return"
    /\ UNCHANGED <<cfgvars, appvars, last_tick, result, chan, rx_alive, listenervars,
                   histvars>>

\* `Ok(())`: run returns, which drops the Receiver.
Return ==
    /\ pc = "return"
    /\ result' = Some(Ok)
    /\ rx_alive' = FALSE
    /\ pc' = "done"
    /\ UNCHANGED <<cfgvars, appvars, last_tick, chan, should_quit, listenervars, histvars>>

\* ------------------------------------------------- events::listen worker
\* The check with a slip: the flag is loaded and the result ignored.
ListenerCheckIgnoresFlag ==
    /\ lpc = "top"
    /\ lpc' = "poll"
    /\ UNCHANGED <<pc, cfgvars, appvars, last_tick, result, chan, rx_alive, should_quit,
                   event, nread, histvars>>

\* `if should_quit.load(Ordering::Relaxed) { break Ok(()); }`
ListenerCheck ==
    /\ lpc = "top"
    /\ lpc' = IF should_quit THEN "ok" ELSE "poll"
    /\ UNCHANGED <<pc, cfgvars, appvars, last_tick, result, chan, rx_alive, should_quit,
                   event, nread, histvars>>

\* `if !event::poll(timeout)? { continue; }`: a timeout, an occurrence, or an
\* I/O error of the event source.
ListenerPoll(answer) ==
    /\ lpc = "poll"
    /\ answer = "available" => nread < MaxEvents
    /\ lpc' = CASE answer = "timeout" -> "top"
                [] answer = "available" -> "read"
                [] answer = "error" -> "read_error"
    /\ UNCHANGED <<pc, cfgvars, appvars, last_tick, result, chan, rx_alive, should_quit,
                   event, nread, histvars>>

\* `let event = event::read()?;`
ListenerRead(e) ==
    /\ lpc = "read"
    /\ event' = Some(e)
    /\ nread' = nread + 1
    /\ lpc' = "filter"
    /\ UNCHANGED <<pc, cfgvars, appvars, last_tick, result, chan, rx_alive, should_quit,
                   histvars>>

ListenerReadError ==
    /\ lpc = "read"
    /\ lpc' = "read_error"
    /\ UNCHANGED <<pc, cfgvars, appvars, last_tick, result, chan, rx_alive, should_quit,
                   event, nread, histvars>>

\* `matches!(event, Event::Key(key) if key.kind == KeyEventKind::Press)`
forwards(e) == e.ty = "Key" /\ e.kind = "Press"

\* `if !matches!(..) { continue; }`
ListenerFilter ==
    /\ lpc = "filter"
    /\ IF forwards(event[1])
       THEN lpc' = "send" /\ UNCHANGED event
       ELSE lpc' = "top" /\ event' = None
    /\ UNCHANGED <<pc, cfgvars, appvars, last_tick, result, chan, rx_alive, should_quit,
                   nread, histvars>>

\* The send with a slip: the SendError is dropped (`let _ = tx.send(event);`)
\* and the loop goes on.
ListenerSendIgnoresError ==
    /\ lpc = "send"
    /\ lpc' = "top"
    /\ chan' = IF rx_alive THEN Append(chan, event[1]) ELSE chan
    /\ forwarded' = IF rx_alive THEN Append(forwarded, event[1]) ELSE forwarded
    /\ event' = None
    /\ UNCHANGED <<pc, cfgvars, appvars, last_tick, result, rx_alive, should_quit, nread,
                   iter, message, updates, renders, rendered, command, origin, executed,
                   outcome, pending, shutdown_runs, registered, delivered>>

\* `tx.send(event)?;`: fails once the Receiver is gone.
ListenerSend ==
    /\ lpc = "send"
    /\ IF rx_alive
       THEN lpc' = "top" /\ chan' = Append(chan, event[1]) /\ forwarded' = Append(forwarded, event[1])
       ELSE lpc' = "send_error" /\ UNCHANGED <<chan, forwarded>>
    /\ event' = None
    /\ UNCHANGED <<pc, cfgvars, appvars, last_tick, result, rx_alive, should_quit, nread,
                   iter, message, updates, renders, rendered, command, origin, executed,
                   outcome, pending, shutdown_runs, registered, delivered>>

\* ------------------------------------------------------- specifications
\* The main thread's steps, application code drawing its commands from menu.
MainNext(menu) ==
    \/ \E S \in ScreenKeys, cb \in CallbackChoices(startup_callback, menu), io \in IoChoices :
          RunStart(S, cb, io)
    \/ LoopExit
    \/ LoopPace
    \/ Poll
    \/ \E ret \in UpdateChoices(menu), io \in IoChoices : Update(ret, io)
    \/ Render
    \/ \E k \in ScreenKeys : ShutdownScreen(k)
    \/ \E cb \in CallbackChoices(shutdown_callback, menu), io \in IoChoices :
          ShutdownCallback(cb, io)
    \/ Cancel
    \/ Return

ListenerNext ==
    \/ ListenerCheck
    \/ \E answer \in {"timeout", "available", "error"} : ListenerPoll(answer)
    \/ \E e \in Events : ListenerRead(e)
    \/ ListenerReadError
    \/ ListenerFilter
    \/ ListenerSend

\* The whole program: the main thread and the worker, interleaved.
Next ==
    \/ \E k \in ScreenKeys : BuilderScreen(k)
    \/ MainNext(FewCommands)
    \/ ListenerNext

Spec == Init /\ [][Next]_vars

\* The whole program for the worker's termination: screens return nothing or
\* Quit, and the worker thread is scheduled fairly (the OS runs the spawned
\* thread, and event::poll returns within its timeout).
NextFair ==
    \/ \E k \in ScreenKeys : BuilderScreen(k)
    \/ MainNext({Quit})
    \/ ListenerNext

SpecFair == Init /\ [][NextFair]_vars /\ WF_vars(ListenerNext)

\* The main thread with callbacks, the worker never scheduled.
NextMain ==
    \/ \E k \in ScreenKeys : BuilderScreen(k)
    \/ BuilderOnStartup
    \/ BuilderOnShutdown
    \/ MainNext(SomeCommands)

SpecMain == Init /\ [][NextMain]_vars

\* The main thread without callbacks, its screens returning batches.
NextCmd ==
    \/ \E k \in ScreenKeys : BuilderScreen(k)
    \/ MainNext(ManyCommands)

SpecCmd == Init /\ [][NextCmd]_vars

\* ------------------------------------------------------------ properties
SlotKeys(slot) == IF slot = None THEN {} ELSE {slot[1].key}

\* This step is a call of handle_command on c (from run's entry, from the
\* update step or from the shutdown tail).
Handles(c) ==
    /\ pc \in {"build", "update", "shutdown_screens"}
    /\ command' = Some(c)

\* The active slot as the command of this step finds it: in the update step
\* the active screen has received the message before its command is executed.
ActiveBefore ==
    IF pc = "update"
    THEN Some(Entry(active_screen_entry[1].key,
                    ScreenUpdate(active_screen_entry[1].screen, message[1])))
    ELSE active_screen_entry

\* C1: with screens 1 and 2 registered and 1 the initial screen, the update
\* commands Screen(2) and then Screen(1) leave no fault, screen 1 active as it
\* left the active slot, screen 2 previous and the registry empty. Stated on
\* the second command: it finds 2 active, 1 previous and the registry empty.
C1_SwitchBack ==
    [][(/\ Handles(Screen(1))
        /\ pc = "update"
        /\ registered = {1, 2}
        /\ SlotKeys(active_screen_entry) = {2}
        /\ SlotKeys(previous_screen_entry) = {1})
       => (/\ outcome' = Some(Ok)
           /\ result' = None
           /\ active_screen_entry' = previous_screen_entry
           /\ SlotKeys(previous_screen_entry') = {2}
           /\ DOMAIN screens' = {})]_vars

\* C2: the keys of the registry, of the active slot and of the previous slot
\* are pairwise disjoint, their union is the set of keys registered at build
\* time, and every screen is held under its own key.
C2_NoScreenLostOrDuplicated ==
    /\ DOMAIN screens \cap SlotKeys(active_screen_entry) = {}
    /\ DOMAIN screens \cap SlotKeys(previous_screen_entry) = {}
    /\ SlotKeys(active_screen_entry) \cap SlotKeys(previous_screen_entry) = {}
    /\ DOMAIN screens \cup SlotKeys(active_screen_entry) \cup SlotKeys(previous_screen_entry)
          = registered
    /\ \A k \in DOMAIN screens : screens[k].ty = k
    /\ active_screen_entry # None => active_screen_entry[1].screen.ty = active_screen_entry[1].key
    /\ previous_screen_entry # None =>
          previous_screen_entry[1].screen.ty = previous_screen_entry[1].key

\* Three screens have rotated: a successful switch from update has moved the
\* old previous screen back into the registry.
C2_Witness ==
    /\ command = Some(Screen(3))
    /\ origin = "update"
    /\ outcome = Some(Ok)
    /\ DOMAIN screens = {1}
    /\ SlotKeys(active_screen_entry) = {3}
    /\ SlotKeys(previous_screen_entry) = {2}

\* C3: a Screen(k) command whose key is not in the registry returns
\* MissingScreen(k), which run returns, and leaves registry, active slot and
\* previous slot as the command found them.
C3_MissingScreenIsAtomic ==
    [][\A k \in ScreenKeys :
          (Handles(Screen(k)) /\ k \notin DOMAIN screens)
          => (/\ outcome' = Some(MissingScreenError(k))
              /\ result' = Some(MissingScreenError(k))
              /\ screens' = screens
              /\ active_screen_entry' = ActiveBefore
              /\ previous_screen_entry' = previous_screen_entry)]_vars

\* update asked for a screen that was never registered while two screens sat
\* in the slots: run returned the fault.
C3_Witness ==
    /\ command = Some(Screen(3))
    /\ origin = "update"
    /\ 3 \notin registered
    /\ result = Some(MissingScreenError(3))
    /\ SlotKeys(active_screen_entry) = {2}
    /\ SlotKeys(previous_screen_entry) = {1}

\* The non-Batch commands of a command in list order, nested batches
\* depth-first.
RECURSIVE Flatten(_)
RECURSIVE FlattenAll(_)
Flatten(c) == IF c.t = "Batch" THEN FlattenAll(c.cs) ELSE <<c>>
FlattenAll(commands) ==
    IF commands = <<>> THEN <<>> ELSE Flatten(Head(commands)) \o FlattenAll(Tail(commands))

\* The effect of one successful non-Batch command.
LeafEffect(a, leaf) ==
    CASE leaf.t = "Screen" -> activate_screen(a, leaf.k)
      [] leaf.t = "Crossterm" -> [app |-> [a EXCEPT !.sink = Append(@, "op")], res |-> Ok]
      [] leaf.t = "Quit" -> [app |-> [a EXCEPT !.exiting = TRUE], res |-> Ok]
      [] OTHER -> [app |-> a, res |-> Ok]

\* The effects of successful non-Batch commands, one after the other; ok is
\* whether each of them could succeed where it stood.
RECURSIVE ApplyLeaves(_, _)
ApplyLeaves(a, leaves) ==
    IF leaves = <<>> THEN [app |-> a, ok |-> TRUE]
    ELSE LET r == LeafEffect(a, Head(leaves)) IN
         IF r.res # Ok THEN [app |-> a, ok |-> FALSE] ELSE ApplyLeaves(r.app, Tail(leaves))

\* The fault res is the one the command leaf raises on the application a.
FaultOf(a, leaf, res) ==
    CASE leaf.t = "Screen" -> res = MissingScreenError(leaf.k) /\ leaf.k \notin DOMAIN a.screens
      [] leaf.t = "Crossterm" -> res = CrosstermCommandExecution
      [] leaf.t \in {"EnableRawMode", "DisableRawMode"} -> res = RawMode
      [] OTHER -> FALSE

IsPrefix(s, t) == Len(s) <= Len(t) /\ s = SubSeq(t, 1, Len(s))

\* What the batch claim says of a call on c that found the application in
\* state a, reached the commands log and returned res.
BatchLaw(a, c, log, res) ==
    LET done == IF res = Ok THEN log ELSE SubSeq(log, 1, Len(log) - 1)
        applied == ApplyLeaves(a, done)
    IN /\ IsPrefix(log, Flatten(c))
       /\ res = Ok => log = Flatten(c)
       /\ applied.ok
       /\ screens' = applied.app.screens
       /\ active_screen_entry' = applied.app.active
       /\ previous_screen_entry' = applied.app.previous
       /\ exiting' = applied.app.exiting
       /\ sink' = applied.app.sink
       /\ res # Ok => log # <<>> /\ FaultOf(applied.app, log[Len(log)], res)

\* C4: a Batch executes its elements in list order, nested batches depth
\* first; it returns the fault of the first element that fails, the effects of
\* the elements before it stay applied and the elements after it are never
\* executed.
C4_BatchStopsAtFirstFault ==
    [][\A c \in ManyCommands :
          (Handles(c) /\ pc \in {"update", "shutdown_screens"} /\ c.t = "Batch")
          => BatchLaw([App(0) EXCEPT !.active = ActiveBefore], c, executed', outcome'[1])]_vars

\* A batch from update failed in a nested batch after Quit had been executed
\* and before its Crossterm: exiting stays set, the sink stays empty.
C4_Witness ==
    /\ command = Some(Batch(<<Quit, Batch(<<>>), Batch(<<Screen(3), Crossterm>>)>>))
    /\ origin = "update"
    /\ executed = <<Quit, Screen(3)>>
    /\ outcome = Some(MissingScreenError(3))
    /\ result = outcome
    /\ exiting
    /\ sink = <<>>
    /\ pc = "done"

\* The screens the application holds, wherever they are.
SlotScreens(slot) == IF slot = None THEN {} ELSE {slot[1].screen}
AllScreens ==
    {screens[k] : k \in DOMAIN screens}
        \cup SlotScreens(active_screen_entry) \cup SlotScreens(previous_screen_entry)

\* C5: when update sets exiting in an iteration, that iteration still renders
\* the active screen exactly once; the next top of the loop goes to the
\* shutdown broadcast without sleeping, polling, updating or rendering; the
\* broadcast reaches the registry's screens only, never the two slots.
C5_QuitRendersOnceThenShutsDown ==
    /\ [](pc = "top" /\ exiting /\ iter >= 1
            => renders = 1 /\ updates = 1 /\ rendered = Some(active_screen_entry[1].key))
    /\ [][(pc = "render" /\ exiting /\ pc' # pc)
            => (pc' = "top" /\ renders = 0 /\ renders' = 1 /\ UNCHANGED appvars)]_vars
    /\ [][(pc = "top" /\ exiting /\ pc' # pc)
            => (/\ pc' = "shutdown_screens"
                /\ pending' = DOMAIN screens
                /\ UNCHANGED <<appvars, last_tick, chan, message, updates, renders, rendered>>)]_vars
    /\ [](pc = "shutdown_screens"
            => \A s \in SlotScreens(active_screen_entry) \cup SlotScreens(previous_screen_entry) :
                  s.shut = 0 /\ s.last # Some(Shutdown))
    /\ [][(pc = "shutdown_screens" /\ pc' = pc /\ pending' # pending)
            => (/\ UNCHANGED <<active_screen_entry, previous_screen_entry>>
                /\ \E k \in DOMAIN screens :
                      /\ pending' = pending \ {k}
                      /\ screens' = [screens EXCEPT ![k] = ScreenUpdate(@, Shutdown)])]_vars

\* update set exiting in the second iteration, the iteration rendered once,
\* and the broadcast has gone through a registry that held a screen while
\* both slots were occupied.
C5_Witness ==
    /\ pc = "shutdown_screens"
    /\ pending = {}
    /\ iter = 2
    /\ renders = 1
    /\ previous_screen_entry # None
    /\ DOMAIN screens # {}
    /\ \A k \in DOMAIN screens : screens[k].shut = 1

\* C6: the shutdown sequence is ordered. Nothing of it happens before exiting
\* is observed at the top of the loop; every registry screen receives Shutdown
\* exactly once before the shutdown command runs; the command runs at most
\* once and before the cancellation flag is set; run returns Ok only after
\* the flag is set.
C6_ShutdownIsOrdered ==
    /\ [](pc \in {"build", "top", "poll", "update", "render"}
            => /\ \A s \in AllScreens : s.shut = 0
               /\ shutdown_runs = 0
               /\ ~should_quit
               /\ result = None)
    /\ [](pc = "shutdown_screens"
            => /\ exiting
               /\ shutdown_runs = 0
               /\ ~should_quit
               /\ pending \subseteq DOMAIN screens
               /\ \A k \in DOMAIN screens : screens[k].shut = IF k \in pending THEN 0 ELSE 1)
    /\ [](\A s \in AllScreens : s.shut <= 1)
    /\ [][shutdown_runs' # shutdown_runs
            => (/\ pc = "shutdown_screens"
                /\ pending = {}
                /\ \A k \in DOMAIN screens : screens[k].shut = 1
                /\ shutdown_runs' = 1)]_vars
    /\ [](pc = "cancel" => ~should_quit /\ shutdown_runs = IF shutdown_callback THEN 1 ELSE 0)
    /\ [](should_quit => exiting /\ shutdown_runs = IF shutdown_callback THEN 1 ELSE 0)
    /\ [](pc = "return" => should_quit /\ result = None)
    /\ [](result = Some(Ok) => should_quit /\ pc = "done")

\* A whole shutdown: a registry screen was notified, the configured shutdown
\* command ran, the flag was set and run returned Ok.
C6_Witness ==
    /\ pc = "done"
    /\ result = Some(Ok)
    /\ should_quit
    /\ shutdown_runs = 1
    /\ \E k \in DOMAIN screens : screens[k].shut = 1

\* C7: once the loop has entered shutdown, run does not return before the
\* cancellation flag is set, also when the shutdown command fails.
C7_ShutdownSetsCancel ==
    (pc = "done" /\ (result = Some(Ok) \/ origin = "shutdown")) => should_quit

\* C8: the worker forwards an occurrence if and only if it is a key press or
\* not a key occurrence at all (mouse, resize, focus, paste); key release and
\* key repeat are dropped.
C8_ForwardsPressAndNonKey ==
    [][(lpc = "filter" /\ lpc' # lpc)
       => (lpc' = "send" <=> (event[1].ty # "Key" \/ event[1].kind = "Press"))]_vars

\* run has returned a fault raised in a Running iteration (at the poll step
\* or by the command update returned).
RunningFault ==
    /\ pc = "done"
    /\ iter >= 1
    /\ result \notin {None, Some(Ok)}
    /\ origin \in {"", "update"}

\* C9: a fault raised in a Running iteration ends run at once with that fault:
\* an empty channel whose sender is gone yields EventSourceDisconnected at the
\* poll step, a failing command of update yields its fault; the iteration does
\* not render, no screen receives Shutdown, the shutdown command does not run,
\* and nothing happens in run afterwards.
C9_RunningFaultAbortsRun ==
    /\ [][(pc = "poll" /\ pc' # pc /\ chan = <<>> /\ SenderDropped)
            => (/\ pc' = "done"
                /\ result' = Some(EventSourceDisconnectedError)
                /\ UNCHANGED <<appvars, message, updates, renders, shutdown_runs, should_quit>>)]_vars
    /\ [][(pc = "update" /\ pc' # pc /\ outcome' \notin {None, Some(Ok)})
            => (pc' = "done" /\ result' = outcome' /\ updates' = 1)]_vars
    /\ [](RunningFault
            => /\ renders = 0
               /\ updates = (IF origin = "update" THEN 1 ELSE 0)
               /\ shutdown_runs = 0
               /\ ~should_quit
               /\ \A s \in AllScreens : s.shut = 0)
    /\ [][pc = "done"
            => UNCHANGED <<pc, result, appvars, chan, iter, message, updates, renders,
                           rendered, shutdown_runs, should_quit>>]_vars

\* The worker died of a read error with nothing in the channel, and the
\* second iteration's poll returned the fault after a first full iteration.
C9_Witness ==
    /\ pc = "done"
    /\ result = Some(EventSourceDisconnectedError)
    /\ lpc = "read_error"
    /\ iter = 2
    /\ rendered # None
    /\ updates = 0

\* What the poll step does when it leaves a channel that is not both empty
\* and without sender: one message, the head of the channel or a Tick.
PollSelectsOne ==
    /\ pc' = "update"
    /\ message' = Some(IF chan # <<>> THEN MessageFrom(Head(chan)) ELSE Tick)
    /\ chan' = IF chan # <<>> THEN Tail(chan) ELSE chan
    /\ result' = None

\* What the update step does: the screen in the active slot receives the
\* selected message, once, and no other screen receives anything.
UpdateDeliversOne ==
    LET before == active_screen_entry[1].screen IN
    /\ updates = 0
    /\ updates' = 1
    /\ \E s \in AllScreens' :
          /\ s.ty = before.ty
          /\ s.upd = before.upd + 1
          /\ s.last = message
    /\ \A s \in AllScreens' : s.ty # before.ty => s \in AllScreens

\* C10 as stated: every Running iteration delivers exactly one message to the
\* active screen's update, the head of the channel if there is one, otherwise
\* a Tick; never none and never more than one.
C10_EveryIterationDeliversOne ==
    /\ [][(pc = "poll" /\ pc' # pc) => PollSelectsOne]_vars
    /\ [][(pc = "update" /\ pc' # pc) => UpdateDeliversOne]_vars
    /\ [](updates <= 1)
    /\ [](pc \in {"render", "top"} /\ iter >= 1 => updates = 1)

\* C10 as amended: the same for every iteration whose poll does not find the
\* channel empty with its sender gone; that poll delivers nothing and ends run
\* with EventSourceDisconnected.
C10_IterationDeliversOneUnlessDisconnected ==
    /\ [][(pc = "poll" /\ pc' # pc /\ ~(chan = <<>> /\ SenderDropped)) => PollSelectsOne]_vars
    /\ [][(pc = "poll" /\ pc' # pc /\ chan = <<>> /\ SenderDropped)
            => (/\ pc' = "done"
                /\ result' = Some(EventSourceDisconnectedError)
                /\ message' = None
                /\ updates' = 0)]_vars
    /\ [][(pc = "update" /\ pc' # pc) => UpdateDeliversOne]_vars
    /\ [](updates <= 1)
    /\ [](pc \in {"render", "top"} /\ iter >= 1 => updates = 1)

\* Two key presses were pending: the iteration delivered the first alone and
\* left the second in the channel.
C10_Witness ==
    /\ pc = "render"
    /\ updates = 1
    /\ message = Some(MessageFrom(KeyEvent("Press", "a")))
    /\ active_screen_entry[1].screen.last = message
    /\ chan = <<KeyEvent("Press", "b")>>

\* The worker has not finished.
WorkerRunning == lpc \in {"top", "poll", "read", "filter", "send"}

\* Every pass of the worker's loop begins with the flag check: a poll timeout,
\* a dropped occurrence and a forwarded occurrence all lead to the top, the
\* top leads to the poll only past a clear flag, and to Ok past a set one.
ChecksFlagEveryPass ==
    /\ [][(lpc = "top" /\ lpc' # lpc) => lpc' = (IF should_quit THEN "ok" ELSE "poll")]_vars
    /\ [][(lpc' = "poll" /\ lpc' # lpc) => (lpc = "top" /\ ~should_quit)]_vars
    /\ [][(lpc = "poll" /\ lpc' # lpc) => lpc' \in {"top", "read", "read_error"}]_vars
    /\ [][(lpc = "filter" /\ lpc' # lpc /\ ~forwards(event[1])) => lpc' = "top"]_vars
    /\ [][(lpc = "send" /\ lpc' # lpc /\ rx_alive) => lpc' = "top"]_vars

\* run stores the flag and returns whatever the worker is doing.
RunNeverWaits ==
    /\ [](pc = "cancel" => ENABLED Cancel)
    /\ [](pc = "return" => ENABLED Return)

\* C11 as stated: once the cancellation flag is set the worker eventually
\* terminates with Ok, having checked the flag at the top of every pass; run
\* never waits for it.
C11_CancelledWorkerEndsOk ==
    /\ [][(should_quit /\ WorkerRunning /\ lpc' # lpc /\ SenderDropped') => lpc' = "ok"]_vars
    /\ (should_quit /\ WorkerRunning) ~> (lpc = "ok")
    /\ ChecksFlagEveryPass
    /\ RunNeverWaits

\* C11 as amended: once the flag is set the worker eventually terminates, with
\* Ok if it reaches the top of its loop, otherwise with the fault of the pass
\* it was in (the event source's error, or the send to a dropped Receiver).
C11_CancelledWorkerEnds ==
    /\ should_quit ~> SenderDropped
    /\ [][(should_quit /\ WorkerRunning /\ lpc' # lpc /\ SenderDropped')
            => \/ (lpc = "top" /\ lpc' = "ok")
               \/ (lpc \in {"poll", "read"} /\ lpc' = "read_error")
               \/ (lpc = "send" /\ ~rx_alive /\ lpc' = "send_error")]_vars
    /\ ChecksFlagEveryPass
    /\ RunNeverWaits

\* run has returned Ok and the worker, which had forwarded an occurrence that
\* nobody drained, found the flag set at its next check.
C11_Witness ==
    /\ pc = "done"
    /\ result = Some(Ok)
    /\ should_quit
    /\ lpc = "ok"
    /\ chan # <<>>

\* C12: a send to a channel whose Receiver has been dropped ends the worker
\* with the send fault as its own result; run, which has returned by then,
\* keeps the result it returned, and nothing of the application changes.
C12_SendFaultStaysInWorker ==
    /\ [][(lpc = "send" /\ lpc' # lpc /\ ~rx_alive)
            => (/\ lpc' = "send_error"
                /\ UNCHANGED <<pc, result, appvars, chan, should_quit>>)]_vars
    /\ [](lpc = "send_error" => (pc = "done" /\ result # None))
    /\ [][lpc = "send_error" => UNCHANGED <<lpc, pc, result, appvars, chan>>]_vars

\* run returned Ok while the worker held a key press; the worker's send then
\* failed.
C12_Witness ==
    /\ lpc = "send_error"
    /\ pc = "done"
    /\ result = Some(Ok)
    /\ ~rx_alive

\* No screen has received an update, a Shutdown or a render, and the listener
\* was never spawned (primed: after this step).
NothingRan ==
    /\ iter' = 0
    /\ updates' = 0
    /\ renders' = 0
    /\ rendered' = None
    /\ lpc' = "unspawned"
    /\ \A s \in AllScreens' : s.upd = 0 /\ s.shut = 0 /\ s.last = None

\* The commands of c that switch screens.
Switches(c) == {i \in 1..Len(Flatten(c)) : Flatten(c)[i].t = "Screen"}

\* C13 as stated: run on an initial key that was never registered executes the
\* startup command (if any) and then returns MissingScreen for that key, before
\* any update or render; the active and previous slots stay empty.
C13_UnregisteredInitialKeepsSlotsEmpty ==
    [][\A S \in ScreenKeys \ registered :
        \A cb \in CallbackChoices(startup_callback, SomeCommands), io \in IoChoices :
          LET started == run_callback(App(io), cb) IN
          (RunStart(S, cb, io) /\ started.res = Ok)
            => /\ pc' = "done"
               /\ result' = Some(MissingScreenError(S))
               /\ command' = cb
               /\ executed' = started.app.log
               /\ NothingRan
               /\ active_screen_entry' = None
               /\ previous_screen_entry' = None]_vars

\* C13 as amended: the same, with registry and slots left as the startup
\* command left them; the slots are empty unless that command switched screens.
C13_UnregisteredInitialIsMissing ==
    [][\A S \in ScreenKeys \ registered :
        \A cb \in CallbackChoices(startup_callback, SomeCommands), io \in IoChoices :
          LET started == run_callback(App(io), cb) IN
          (RunStart(S, cb, io) /\ started.res = Ok)
            => /\ pc' = "done"
               /\ result' = Some(MissingScreenError(S))
               /\ command' = cb
               /\ executed' = started.app.log
               /\ NothingRan
               /\ screens' = started.app.screens
               /\ active_screen_entry' = started.app.active
               /\ previous_screen_entry' = started.app.previous
               /\ exiting' = started.app.exiting
               /\ sink' = started.app.sink
               /\ ((cb = None \/ Switches(cb[1]) = {})
                     => (active_screen_entry' = None /\ previous_screen_entry' = None))]_vars

\* The startup command wrote to the sink, then the activation of the initial
\* screen 3, never registered, failed.
C13_Witness ==
    /\ pc = "done"
    /\ result = Some(MissingScreenError(3))
    /\ 3 \notin registered
    /\ origin = "startup"
    /\ command = Some(Crossterm)
    /\ outcome = Some(Ok)
    /\ sink = <<"op">>
    /\ active_screen_entry = None

\* The channel is open and empty: the worker lives and has forwarded nothing
\* that is still undelivered (it may never have run at all).
SilentListener == chan = <<>> /\ ~SenderDropped

\* With a silent listener the poll step returns at once with a Tick, whatever
\* the worker is doing, and the update step delivers it to the active screen.
SilentPollDeliversTick ==
    /\ [](pc = "poll" => ENABLED Poll)
    /\ [][(pc = "poll" /\ pc' # pc /\ SilentListener)
            => (/\ pc' = "update"
                /\ message' = Some(Tick)
                /\ UNCHANGED <<listenervars, chan, result>>)]_vars
    /\ [](pc = "update" => ENABLED Update(None, 0))
    /\ [][(pc = "update" /\ pc' # pc /\ message = Some(Tick))
            => (/\ UpdateDeliversOne
                /\ \E s \in AllScreens' : s.last = Some(Tick) /\ s.upd >= 1)]_vars
    /\ [](pc = "render" => ENABLED Render)
    /\ [][(pc = "render" /\ pc' # pc) => (renders' = 1 /\ pc' = "top")]_vars
    /\ [](pc = "top" /\ (exiting \/ iter < MaxIter) => ENABLED (LoopExit \/ LoopPace))
    /\ [][(pc = "top" /\ pc' # pc /\ ~exiting) => pc' = "poll"]_vars

\* C14 as stated: with the worker never scheduled or silent, every Running
\* iteration completes its poll, delivers Tick and renders; no step of the
\* loop waits for the worker.
C14_EveryIterationRenders ==
    /\ SilentPollDeliversTick
    /\ [][(pc = "update" /\ pc' # pc /\ message = Some(Tick)) => pc' = "render"]_vars

\* C14 as amended: the same, the iteration rendering unless the command that
\* update returned faults, which ends run with that fault.
C14_IterationRendersUnlessCommandFaults ==
    /\ SilentPollDeliversTick
    /\ [][(pc = "update" /\ pc' # pc /\ message = Some(Tick))
            => IF outcome' \in {None, Some(Ok)}
               THEN pc' = "render"
               ELSE pc' = "done" /\ result' = outcome']_vars

\* Two iterations have run to their render on Ticks while the worker never
\* got past its first flag check.
C14_Witness ==
    /\ pc = "top"
    /\ iter = 2
    /\ renders = 1
    /\ message = Some(Tick)
    /\ lpc = "top"
    /\ nread = 0
    /\ chan = <<>>
    /\ active_screen_entry[1].screen.upd = 2

\* C15: Batch([]) returns Ok and leaves registry, slots, exiting flag and sink
\* as it found them, in every state the application can be in and whatever the
\* terminal would answer; no command is reached.
C15_EmptyBatchIsNoOp ==
    /\ [](\A io \in IoChoices :
            handle_command(App(io), Batch(<<>>)) = [app |-> App(io), res |-> Ok])
    /\ [][Handles(Batch(<<>>))
            => (/\ outcome' = Some(Ok)
                /\ executed' = <<>>
                /\ screens' = screens
                /\ active_screen_entry' = ActiveBefore
                /\ previous_screen_entry' = previous_screen_entry
                /\ exiting' = exiting
                /\ sink' = sink
                /\ pc' = "render")]_vars

\* The second iteration's update returned Batch([]) after the first had
\* switched screens and written to the sink.
C15_Witness ==
    /\ command = Some(Batch(<<>>))
    /\ outcome = Some(Ok)
    /\ pc = "render"
    /\ iter = 2
    /\ previous_screen_entry # None
    /\ sink # <<>>
    /\ ~exiting

\* C16: in a Running iteration update comes first, then the whole of the
\* command it returned, then the render, of the screen that is in the active
\* slot by then: after a successful Screen(k) that is screen k, and the screen
\* that received the message, now in the previous slot, is not rendered.
C16_RenderFollowsCommand ==
    /\ [](pc \in {"poll", "update"} => renders = 0)
    /\ [](pc = "render"
            => (/\ updates = 1
                /\ renders = 0
                /\ origin = "update"
                /\ outcome \in {None, Some(Ok)}
                /\ command # None => executed = Flatten(command[1])))
    /\ [][(pc = "render" /\ pc' # pc)
            => (/\ pc' = "top"
                /\ renders' = 1
                /\ rendered' = Some(active_screen_entry[1].key)
                /\ UNCHANGED <<appvars, updates>>)]_vars
    /\ [][\A k \in ScreenKeys :
            (pc = "render" /\ pc' # pc /\ command = Some(Screen(k)))
              => (/\ rendered' = Some(k)
                  /\ previous_screen_entry # None
                  /\ previous_screen_entry[1].key # k
                  /\ previous_screen_entry[1].screen.last = message
                  /\ rendered' # Some(previous_screen_entry[1].key))]_vars

\* Screen 1 received the message and returned Screen(2); the iteration
\* rendered screen 2.
C16_Witness ==
    /\ pc = "top"
    /\ iter = 1
    /\ command = Some(Screen(2))
    /\ renders = 1
    /\ rendered = Some(2)
    /\ active_screen_entry # None
    /\ active_screen_entry[1].key = 2
    /\ previous_screen_entry # None
    /\ previous_screen_entry[1].key = 1
    /\ previous_screen_entry[1].screen.upd = 1

\* C17: the assertion of activate_screen never fails. No call returns the
\* panic, whichever command is handled in whichever reachable state; the
\* screen in the previous slot is never also in the registry, so that a
\* successful Screen(k) finds its key free and puts it back under it.
C17_AssertionNeverFails ==
    /\ [](result # Some(AssertPanic) /\ outcome # Some(AssertPanic))
    /\ [](SlotKeys(previous_screen_entry) \cap DOMAIN screens = {})
    /\ [](\A c \in SomeCommands, io \in IoChoices :
            handle_command(App(io), c).res # AssertPanic)
    /\ [][\A k \in ScreenKeys :
            (Handles(Screen(k)) /\ outcome' = Some(Ok) /\ previous_screen_entry # None)
              => LET old == previous_screen_entry[1] IN
                 /\ old.key \notin DOMAIN RemoveKey(screens, k)
                 /\ old.key \in DOMAIN screens'
                 /\ screens'[old.key] = old.screen]_vars

\* Screen 1 was active, went to the previous slot on Screen(2), and went back
\* into the registry on Screen(3).
C17_Witness ==
    /\ command = Some(Screen(3))
    /\ outcome = Some(Ok)
    /\ active_screen_entry # None
    /\ active_screen_entry[1].key = 3
    /\ previous_screen_entry # None
    /\ previous_screen_entry[1].key = 2
    /\ 1 \in DOMAIN screens
    /\ screens[1].upd = 1

\* C18: when the initial key S is registered and the startup command (if any)
\* executes without fault, the initial activation succeeds and S is the active
\* screen at the top of the loop, whatever the startup command contains.
C18_InitialActivationSucceeds ==
    [][\A S \in registered :
        \A cb \in CallbackChoices(startup_callback, SomeCommands), io \in IoChoices :
          LET started == run_callback(App(io), cb) IN
          (RunStart(S, cb, io) /\ started.res = Ok)
            => /\ pc' = "top"
               /\ result' = None
               /\ active_screen_entry' # None
               /\ active_screen_entry'[1].key = S]_vars

\* The messages the occurrences of seq convert to, in order.
MessagesFrom(seq) == [i \in 1..Len(seq) |-> MessageFrom(seq[i])]

\* The message the poll step has selected and the update step has yet to
\* deliver, if it was made of an occurrence.
InFlight == IF pc = "update" /\ message # Some(Tick) THEN <<message[1]>> ELSE <<>>

\* C19: whatever the interleaving, the messages made of occurrences that
\* update has received are a prefix of what the worker forwarded, in the same
\* order; every forwarded occurrence is exactly one of delivered, selected for
\* delivery or still in the channel, so none is delivered twice; and what is in
\* the channel once the loop is left or run has returned stays undelivered.
C19_DeliveredIsPrefixOfForwarded ==
    /\ [](IsPrefix(delivered, MessagesFrom(forwarded)))
    /\ [](MessagesFrom(forwarded) = delivered \o InFlight \o MessagesFrom(chan))
    /\ [](\A i \in 1..Len(delivered) : delivered[i] \notin {Tick, Shutdown})
    /\ [][pc \notin {"poll", "update"}
            => (delivered' = delivered /\ IsPrefix(chan, chan'))]_vars
    /\ [][pc = "done" => UNCHANGED <<delivered, chan>>]_vars

\* The worker forwarded two key presses; the only iteration delivered the
\* first and quit, and run returned Ok with the second still in the channel.
C19_Witness ==
    /\ pc = "done"
    /\ result = Some(Ok)
    /\ forwarded = <<KeyEvent("Press", "a"), KeyEvent("Press", "b")>>
    /\ delivered = <<MessageFrom(KeyEvent("Press", "a"))>>
    /\ chan = <<KeyEvent("Press", "b")>>

\* The screen of kind k, wherever it is held.
ScreenAt(held, k) == CHOOSE s \in held : s.ty = k

\* C20: a screen's state changes only by its own update: in the update step
\* for the active screen, on the selected message, and in the Shutdown
\* broadcast for a registry screen; every other step, and every move between
\* registry and slots, leaves each screen as it was. The render step changes
\* no screen and draws the active one. A broadcast step changes the notified
\* screen and nothing else of the application: what its update returned is
\* not executed.
C20_ScreenChangesOnlyByOwnUpdate ==
    /\ [][\A k \in ScreenKeys :
            (\E s \in AllScreens : s.ty = k)
              => /\ \E s \in AllScreens' : s.ty = k
                 /\ LET old == ScreenAt(AllScreens, k)
                        new == ScreenAt(AllScreens', k)
                    IN \/ new = old
                       \/ /\ pc = "update"
                          /\ k = active_screen_entry[1].key
                          /\ new = ScreenUpdate(old, message[1])
                       \/ /\ pc = "shutdown_screens"
                          /\ k \in pending \cap DOMAIN screens
                          /\ new = ScreenUpdate(old, Shutdown)]_vars
    /\ [][(pc = "render" /\ pc' # pc)
            => (UNCHANGED appvars /\ rendered' = Some(active_screen_entry[1].key))]_vars
    /\ [][\A k \in ScreenKeys :
            (Handles(Screen(k)) /\ pc # "build" /\ outcome' = Some(Ok))
              => (/\ active_screen_entry' = Some(Entry(k, screens[k]))
                  /\ previous_screen_entry' = ActiveBefore)]_vars
    /\ [][(pc = "shutdown_screens" /\ pending' # pending)
            => (/\ \E k \in pending \cap DOMAIN screens :
                     /\ pending' = pending \ {k}
                     /\ screens' = [screens EXCEPT ![k] = ScreenUpdate(@, Shutdown)]
                /\ UNCHANGED <<pc, active_screen_entry, previous_screen_entry, exiting, sink,
                               result, command, origin, executed, outcome, shutdown_runs,
                               should_quit>>)]_vars

\* The broadcast is over: the registry screen received Shutdown and nothing
\* else, the screen in the previous slot has the one update it received while
\* active, and the active screen that quit has its own.
C20_Witness ==
    /\ pc = "shutdown_screens"
    /\ pending = {}
    /\ \E k \in DOMAIN screens : screens[k].shut = 1 /\ screens[k].upd = 0
    /\ previous_screen_entry # None
    /\ previous_screen_entry[1].screen.upd = 1
    /\ previous_screen_entry[1].screen.shut = 0
    /\ active_screen_entry[1].screen.upd = 1
    /\ active_screen_entry[1].screen.shut = 0

====
